---- MODULE Spec2Model ----
(***************************************************************************)
(* Model of hibachi/utils.py: project (randomized simplex projection,      *)
(* Duchi et al. 2008, Figure 2) and center (double centering).             *)
(*                                                                         *)
(* Arithmetic is exact.  A real number is an integer numerator over a      *)
(* positive denominator kept next to it: v[i] and z are numerators over    *)
(* den, s is a numerator over den, the returned w[i] is a numerator over   *)
(* wden = den * p; the partial sums of center are numerators over n * n.   *)
(* Rounding of the 32-bit floats the code computes with is not modelled.   *)
(***************************************************************************)
EXTENDS Integers, Sequences, FiniteSets, TLC

\* ---- bounds of the model
MaxLen == 3
VMax == 2
ZMax == 2
MaxC == 2
MaxDim == 2
XMax == 1

IterCap == MaxLen + 2

\* entries of v and of X, and the scalars z the caller passes (z <= 0 included)
VVals == {0 - 1} \cup 0..VMax
XVals == {0 - 1} \cup 1..XMax
ZVals == {0 - 1} \cup 0..ZMax

VARIABLES
    op,         \* which function the caller invokes: "project" or "center"
    v,          \* project: the vector v (numerators over den), in original order
    den,        \* project: common denominator of v and z
    z,          \* project: the target mass (numerator over den)
    vdims,      \* project: len(v.shape)
    pc,         \* project: "idle", "start", "loop", "done", "error"
    U,          \* project: working index set
    s,          \* project: sum accumulator (numerator over den)
    p,          \* project: count accumulator
    err,        \* project: the exception raised, or NoError
    w,          \* project: returned vector (numerators over wden)
    wden,       \* project: denominator of w
    accepted,   \* history: working indices added to s and p
    discarded,  \* history: working indices dropped by the reject branch
    iters,      \* history: iterations of the while loop (saturates at IterCap)
    call,       \* 1 for the first call of project, 2 for the follow-up call
    kind,       \* how the follow-up call's input was derived from the first
    c,          \* scalar used by the follow-up call
    first,      \* input and result of the first call, kept for comparison
    X,          \* center: the input, a list of rows
    xshape,     \* center: X.shape
    cpc,        \* center: "idle", "start", "t1", "t2", "t3", "done", "error"
    cerr,       \* center: the exception raised, or NoError
    evaluated,  \* center: number of terms of the formula evaluated so far
    partial,    \* center: value of the expression so far (numerators over n*n)
    cres        \* center: the returned matrix (numerators over n*n)

pvars == <<v, den, z, vdims, pc, U, s, p, err, w, wden, accepted, discarded,
           iters, call, kind, c, first>>
cvars == <<X, xshape, cpc, cerr, evaluated, partial, cres>>
vars == <<op, pvars, cvars>>

NoError == [type |-> "none", msg |-> ""]
InvalidShape == [type |-> "ValueError", msg |-> "v must be a one-dimensional tensor"]
InvalidTarget == [type |-> "ValueError", msg |-> "z must be a strictly positive scalar"]
ZeroDivision == [type |-> "ZeroDivisionError", msg |-> "division by zero"]
MatmulShape == [type |-> "RuntimeError", msg |-> "mat1 and mat2 shapes cannot be multiplied"]

Max(a, b) == IF a >= b THEN a ELSE b

\* ---------------------------------------------------------------- project

\* v[j - 1] for a working index j in 0..n-1: index 0 reads v[-1], the last
\* element.  Sequences here are 1-based, so Python's v[i] is vec[i + 1].
Val(vec, j) == vec[IF j = 0 THEN Len(vec) ELSE j]

GSetStrict(vec, US, k) == {j \in US : Val(vec, j) > Val(vec, k)}
GSet(vec, US, k) == {j \in US : Val(vec, j) >= Val(vec, k)}

LSet(vec, US, k) == {j \in US : Val(vec, j) < Val(vec, k)}

RECURSIVE SumVal(_, _)
SumVal(vec, S) ==
    IF S = {} THEN 0
    ELSE LET j == CHOOSE x \in S : TRUE
         IN Val(vec, j) + SumVal(vec, S \ {j})

DeltaSAll(vec, US, G) == SumVal(vec, US)
DeltaS(vec, US, G) == SumVal(vec, G)

DeltaP(G) == Cardinality(G)

AcceptTestNoCount(ss, pp, ds, dp, vk, zz) == (ss + ds) - dp * vk < zz
AcceptTest(ss, pp, ds, dp, vk, zz) == (ss + ds) - (pp + dp) * vk < zz

RejectUKeep(G, k) == G
RejectU(G, k) == G \ {k}

\* max(v[i - 1] - theta, 0) with theta = (s - z) / p, as a numerator over
\* den * p
WEntryNoClip(vi, ss, pp, zz) == vi * pp - (ss - zz)
WEntry(vi, ss, pp, zz) == Max(vi * pp - (ss - zz), 0)

ShapeCheckFails(d) == d # 1

TargetCheckLt(zz) == zz < 0
TargetCheckFails(zz) == zz <= 0

Bump(i) == IF i < IterCap THEN i + 1 ELSE i

Kinds == {"scale", "scaleboth", "reproject"}
NoFirst == [v |-> <<>>, den |-> 1, z |-> 0, w |-> <<>>, wden |-> 1, p |-> 0]

ProjectIdle ==
    /\ v = <<>> /\ den = 1 /\ z = 1 /\ vdims = 1 /\ pc = "idle"
    /\ U = {} /\ s = 0 /\ p = 0 /\ err = NoError /\ w = <<>> /\ wden = 1
    /\ accepted = {} /\ discarded = {} /\ iters = 0
    /\ call = 1 /\ kind = "none" /\ c = 1 /\ first = NoFirst

ProjectInit ==
    /\ \E n \in 0..MaxLen : v \in [1..n -> VVals]
    /\ den = 1
    /\ z \in ZVals
    /\ vdims \in {0, 1, 2}
    /\ pc = "start"
    /\ U = {} /\ s = 0 /\ p = 0 /\ err = NoError /\ w = <<>> /\ wden = 1
    /\ accepted = {} /\ discarded = {} /\ iters = 0
    /\ call = 1 /\ kind = "none" /\ c = 1 /\ first = NoFirst

\* lines 39-49: the two precondition checks, then U, s, p are set up
ProjectEnter ==
    /\ op = "project" /\ pc = "start"
    /\ IF ShapeCheckFails(vdims)
       THEN /\ pc' = "error" /\ err' = InvalidShape
            /\ UNCHANGED <<U, s, p>>
       ELSE IF TargetCheckFails(z)
       THEN /\ pc' = "error" /\ err' = InvalidTarget
            /\ UNCHANGED <<U, s, p>>
       ELSE /\ pc' = "loop"
            /\ U' = 0..(Len(v) - 1)
            /\ s' = 0 /\ p' = 0
            /\ UNCHANGED err
    /\ UNCHANGED <<op, v, den, z, vdims, w, wden, accepted, discarded, iters,
                   call, kind, c, first, cvars>>

\* lines 50-61: one iteration of the while loop, pivot k drawn from U
Iterate ==
    /\ op = "project" /\ pc = "loop" /\ U # {}
    /\ \E k \in U :
         LET G == GSet(v, U, k)
             L == LSet(v, U, k)
             delta_p == DeltaP(G)
             delta_s == DeltaS(v, U, G)
         IN IF AcceptTest(s, p, delta_s, delta_p, Val(v, k), z)
            THEN /\ s' = s + delta_s
                 /\ p' = p + delta_p
                 /\ U' = L
                 /\ accepted' = accepted \cup G
                 /\ UNCHANGED discarded
            ELSE /\ U' = RejectU(G, k)
                 /\ discarded' = discarded \cup L \cup {k}
                 /\ UNCHANGED <<s, p, accepted>>
    /\ iters' = Bump(iters)
    /\ UNCHANGED <<op, v, den, z, vdims, pc, err, w, wden, call, kind, c,
                   first, cvars>>

\* lines 63-65: the loop has exited; theta and the output vector
Finish ==
    /\ op = "project" /\ pc = "loop" /\ U = {}
    /\ IF p = 0
       THEN /\ pc' = "error" /\ err' = ZeroDivision
            /\ UNCHANGED <<w, wden>>
       ELSE /\ pc' = "done"
            /\ w' = [i \in 1..Len(v) |-> WEntry(v[i], s, p, z)]
            /\ wden' = den * p
            /\ UNCHANGED err
    /\ UNCHANGED <<op, v, den, z, vdims, U, s, p, accepted, discarded, iters,
                   call, kind, c, first, cvars>>

\* the caller invokes project a second time, on c * v, on (c * v, c * z), or
\* on the vector the first call returned (same z, rewritten over den * p)
CallAgain ==
    /\ op = "project" /\ pc = "done" /\ call = 1
    /\ \E kk \in Kinds, cc \in 2..MaxC :
         /\ kind' = kk
         /\ c' = (IF kk = "reproject" THEN 1 ELSE cc)
         /\ v' = IF kk = "reproject" THEN w
                 ELSE [i \in 1..Len(v) |-> cc * v[i]]
         /\ den' = IF kk = "reproject" THEN wden ELSE den
         /\ z' = IF kk = "reproject" THEN z * p
                 ELSE IF kk = "scaleboth" THEN cc * z ELSE z
    /\ first' = [v |-> v, den |-> den, z |-> z, w |-> w, wden |-> wden, p |-> p]
    /\ call' = 2 /\ pc' = "start"
    /\ U' = {} /\ s' = 0 /\ p' = 0 /\ w' = <<>> /\ wden' = 1
    /\ accepted' = {} /\ discarded' = {} /\ iters' = 0
    /\ UNCHANGED <<op, vdims, err, cvars>>

\* ----------------------------------------------------------------- center

RECURSIVE Dot(_, _, _, _, _)
\* sum over t in 1..k of A[i][t] * B[t][j]
Dot(A, B, i, j, k) ==
    IF k = 0 THEN 0 ELSE A[i][k] * B[k][j] + Dot(A, B, i, j, k - 1)

MatMul(A, B, ra, ca, cb) ==
    [i \in 1..ra |-> [j \in 1..cb |-> Dot(A, B, i, j, ca)]]

Transpose(A, ra, ca) == [j \in 1..ca |-> [i \in 1..ra |-> A[i][j]]]

Scale(a, A) == [i \in DOMAIN A |-> [j \in DOMAIN A[i] |-> a * A[i][j]]]

Sub(A, B) == [i \in DOMAIN A |-> [j \in DOMAIN A[i] |-> A[i][j] - B[i][j]]]

Add(A, B) == [i \in DOMAIN A |-> [j \in DOMAIN A[i] |-> A[i][j] + B[i][j]]]

Ones(n) == [i \in 1..n |-> [j \in 1..n |-> 1]]

\* len(X): the size of the first dimension
LenX(shape) == shape[1]

\* O @ Y.  A one-dimensional Y (kept as a single row) is multiplied as a
\* column vector and the product is one-dimensional again.
LeftOnes(Y, shape) ==
    LET n == LenX(shape)
    IN IF Len(shape) = 1
       THEN Transpose(MatMul(Ones(n), Transpose(Y, 1, n), n, n, 1), n, 1)
       ELSE MatMul(Ones(n), Y, n, n, shape[2])

\* Y @ O is defined when Y is one-dimensional of length n or has n columns
CanRightOnes(shape) == Len(shape) = 1 \/ shape[2] = LenX(shape)

RightOnes(Y, shape) ==
    LET n == LenX(shape)
    IN IF Len(shape) = 1
       THEN MatMul(Y, Ones(n), 1, n, n)
       ELSE MatMul(Y, Ones(n), n, shape[2], n)

\* the three terms, as numerators over n * n
Term1(Y, shape) == Scale(LenX(shape), LeftOnes(Y, shape))

Term2(Y, shape) == Scale(LenX(shape), RightOnes(Y, shape))

Term3WrongScale(Y, shape) == Scale(LenX(shape), RightOnes(LeftOnes(Y, shape), shape))
Term3(Y, shape) == RightOnes(LeftOnes(Y, shape), shape)

\* one-dimensional and two-dimensional inputs with every dimension >= 1
Shapes ==
    {<<n>> : n \in 1..MaxDim} \cup {<<r, cl>> : r \in 1..MaxDim, cl \in 1..MaxDim}

DataRows(shape) == IF Len(shape) = 1 THEN 1 ELSE shape[1]
DataCols(shape) == IF Len(shape) = 1 THEN shape[1] ELSE shape[2]

CenterIdle ==
    /\ X = <<>> /\ xshape = <<0, 0>> /\ cpc = "idle" /\ cerr = NoError
    /\ evaluated = 0 /\ partial = <<>> /\ cres = <<>>

CenterInit ==
    /\ xshape \in Shapes
    /\ X \in [1..DataRows(xshape) -> [1..DataCols(xshape) -> XVals]]
    /\ cpc = "start" /\ cerr = NoError
    /\ evaluated = 0 /\ partial = <<>> /\ cres = <<>>

\* lines 83-85, up to the first operand: n = len(X), O = ones(n, n); there
\* is no check of the shape of X
CenterEnter ==
    /\ op = "center" /\ cpc = "start"
    /\ cpc' = "t1"
    /\ partial' = Scale(LenX(xshape) * LenX(xshape), X)
    /\ UNCHANGED <<op, pvars, X, xshape, cerr, evaluated, cres>>

\* X - (1 / n) * O @ X
CenterTerm1 ==
    /\ op = "center" /\ cpc = "t1"
    /\ partial' = Sub(partial, Term1(X, xshape))
    /\ evaluated' = 1
    /\ cpc' = "t2"
    /\ UNCHANGED <<op, pvars, X, xshape, cerr, cres>>

\* ... - (1 / n) * X @ O
CenterTerm2 ==
    /\ op = "center" /\ cpc = "t2"
    /\ IF CanRightOnes(xshape)
       THEN /\ partial' = Sub(partial, Term2(X, xshape))
            /\ evaluated' = 2
            /\ cpc' = "t3"
            /\ UNCHANGED cerr
       ELSE /\ cpc' = "error" /\ cerr' = MatmulShape
            /\ UNCHANGED <<partial, evaluated>>
    /\ UNCHANGED <<op, pvars, X, xshape, cres>>

\* ... + (1 / pow(n, 2)) * O @ X @ O, and the return
CenterTerm3 ==
    /\ op = "center" /\ cpc = "t3"
    /\ partial' = Add(partial, Term3(X, xshape))
    /\ cres' = Add(partial, Term3(X, xshape))
    /\ evaluated' = 3
    /\ cpc' = "done"
    /\ UNCHANGED <<op, pvars, X, xshape, cerr>>

\* ------------------------------------------------------------ the system

Init ==
    /\ op \in {"project", "center"}
    /\ IF op = "project" THEN ProjectInit /\ CenterIdle
       ELSE ProjectIdle /\ CenterInit

Next ==
    \/ ProjectEnter
    \/ Iterate
    \/ Finish
    \/ CallAgain
    \/ CenterEnter
    \/ CenterTerm1
    \/ CenterTerm2
    \/ CenterTerm3

Spec == Init /\ [][Next]_vars

\* the interpreter keeps executing a call until it returns or raises
FairSpec == Spec /\ WF_vars(ProjectEnter \/ Iterate \/ Finish)

\* ------------------------------------------------- reference projection

\* The sort-based projection of Duchi et al., Figure 1, written independently
\* of the pivot loop: mu is v sorted in decreasing order.
RECURSIVE SortDesc(_)
SortDesc(vec) ==
    IF vec = <<>> THEN <<>>
    ELSE LET i == CHOOSE a \in 1..Len(vec) :
                      \A b \in 1..Len(vec) : vec[a] >= vec[b]
             rest == [b \in 1..(Len(vec) - 1) |->
                         IF b < i THEN vec[b] ELSE vec[b + 1]]
         IN <<vec[i]>> \o SortDesc(rest)

RECURSIVE Prefix(_, _)
Prefix(mu, j) == IF j = 0 THEN 0 ELSE mu[j] + Prefix(mu, j - 1)

RefRho(vec, zz) ==
    LET mu == SortDesc(vec)
        ok == {j \in 1..Len(vec) : j * mu[j] - (Prefix(mu, j) - zz) > 0}
    IN CHOOSE j \in ok : \A i \in ok : i <= j

\* numerator of the reference w[i], over den * RefRho
RefW(vec, zz) ==
    LET rho == RefRho(vec, zz)
        S == Prefix(SortDesc(vec), rho)
    IN [i \in 1..Len(vec) |-> Max(vec[i] * rho - (S - zz), 0)]

RECURSIVE SumSeq(_, _)
SumSeq(vec, k) == IF k = 0 THEN 0 ELSE vec[k] + SumSeq(vec, k - 1)

ZeroSet(vec) == {i \in 1..Len(vec) : vec[i] = 0}

Returned == op = "project" /\ pc = "done"

\* ------------------------------------------------------------- properties

\* C1: whenever project returns for a vector of length n >= 1 and z > 0, the
\* returned vector equals the sort-based reference projection entry by entry
\* (w[i] / (den * p) = RefW[i] / (den * rho)), whatever pivots were drawn, and
\* for n = 1 it is [z].
C1_MatchesReference ==
    (Returned /\ Len(v) >= 1) =>
        /\ Len(w) = Len(v)
        /\ \A i \in 1..Len(v) : w[i] * RefRho(v, z) = RefW(v, z)[i] * p
        /\ Len(v) = 1 => w[1] * den = z * wden

C1_Witness ==
    /\ Returned /\ call = 1 /\ Len(v) = 3 /\ iters >= 2
    /\ ZeroSet(w) # {} /\ ZeroSet(w) # 1..3
    /\ discarded # {}

\* C2: the returned vector has the length of v, no negative entry, and its
\* entries sum to exactly z.
C2_OnSimplex ==
    Returned =>
        /\ Len(w) = Len(v)
        /\ \A i \in 1..Len(w) : w[i] >= 0
        /\ SumSeq(w, Len(w)) * den = z * wden

C2_Witness ==
    /\ Returned /\ call = 1 /\ Len(v) >= 2
    /\ \E i \in 1..Len(v) : v[i] < 0 /\ w[i] = 0
    /\ \E i \in 1..Len(v) : w[i] > 0 /\ w[i] * den # v[i] * wden

LoopUntouched ==
    /\ U = {} /\ s = 0 /\ p = 0 /\ iters = 0 /\ w = <<>>
    /\ accepted = {} /\ discarded = {}

\* C3 as stated: once the call has left its entry point, a v that is not
\* one-dimensional has produced InvalidShape, a z <= 0 has produced the
\* distinct InvalidTarget, both with the loop untouched, and a call with
\* one-dimensional v and z > 0 raises neither.
C3_AsStated ==
    (op = "project" /\ call = 1 /\ pc # "start") =>
        /\ vdims # 1 => (pc = "error" /\ err = InvalidShape /\ LoopUntouched)
        /\ z <= 0 => (pc = "error" /\ err = InvalidTarget /\ LoopUntouched)
        /\ InvalidShape # InvalidTarget
        /\ (vdims = 1 /\ z > 0) => err \notin {InvalidShape, InvalidTarget}

\* C3 amended: the shape check comes first, so InvalidTarget is the failure
\* of a call whose v is one-dimensional and whose z <= 0; a call violating
\* both preconditions fails with InvalidShape.
C3_Preconditions ==
    (op = "project" /\ call = 1 /\ pc # "start") =>
        /\ vdims # 1 => (pc = "error" /\ err = InvalidShape /\ LoopUntouched)
        /\ (vdims = 1 /\ z <= 0) =>
               (pc = "error" /\ err = InvalidTarget /\ LoopUntouched)
        /\ InvalidShape # InvalidTarget
        /\ (vdims = 1 /\ z > 0) => err \notin {InvalidShape, InvalidTarget}

C3_Witness ==
    /\ op = "project" /\ pc = "error" /\ err = InvalidTarget
    /\ vdims = 1 /\ z = 0 /\ Len(v) >= 1

NonSquare == Len(xshape) # 2 \/ xshape[1] # xshape[2]

\* C4: a non-square X never gets past the entry of center: no term of the
\* formula is evaluated for it, and once the call is over it has failed with
\* InvalidShape and returned nothing.
C4_NonSquareRejected ==
    (op = "center" /\ NonSquare) =>
        /\ evaluated = 0
        /\ cpc # "done" /\ cres = <<>>
        /\ cpc = "error" => cerr = InvalidShape

RowSum(M, i) == SumSeq(M[i], Len(M[i]))
ColSum(M, j) == SumSeq([i \in 1..Len(M) |-> M[i][j]], Len(M))
Total(M) == SumSeq([i \in 1..Len(M) |-> RowSum(M, i)], Len(M))

CenterReturnedSquare ==
    op = "center" /\ cpc = "done" /\ ~NonSquare /\ LenX(xshape) >= 1

\* C5: for a square n x n input, n >= 1, center returns a matrix of the same
\* shape whose entry (i, j) is X[i][j] - rowMean[i] - colMean[j] + grandMean
\* (all over n * n), whose rows and columns each sum to zero, which is [[0]]
\* for a 1 x 1 input; X is never modified.
C5_Centered ==
    /\ [](CenterReturnedSquare =>
            LET n == LenX(xshape)
            IN /\ Len(cres) = n
               /\ \A i \in 1..n : Len(cres[i]) = n
               /\ \A i \in 1..n : \A j \in 1..n :
                     cres[i][j] = n * n * X[i][j] - n * RowSum(X, i)
                                    - n * ColSum(X, j) + Total(X)
               /\ \A i \in 1..n : RowSum(cres, i) = 0
               /\ \A j \in 1..n : ColSum(cres, j) = 0
               /\ n = 1 => cres = <<(<<0>>)>>)
    /\ [][X' = X]_vars

C5_Witness ==
    /\ CenterReturnedSquare /\ LenX(xshape) = 2
    /\ X[1][1] # X[1][2] /\ X[1][1] # X[2][1]
    /\ \E i \in 1..2 : \E j \in 1..2 : cres[i][j] # 0

SecondReturned(kk) == Returned /\ call = 2 /\ kind = kk

\* C6 as stated: project(c * v, z) has the same zero entries as project(v, z).
C6_AsStated ==
    SecondReturned("scale") => ZeroSet(w) = ZeroSet(first.w)

\* C6 amended: for c >= 1 every entry that is zero in project(v, z) is zero in
\* project(c * v, z), and the zero entries are the same when z is scaled
\* with v: project(c * v, c * z) = c * project(v, z).
C6_Scaling ==
    /\ SecondReturned("scale") => ZeroSet(first.w) \subseteq ZeroSet(w)
    /\ SecondReturned("scaleboth") =>
          /\ ZeroSet(w) = ZeroSet(first.w)
          /\ \A i \in 1..Len(w) : w[i] * first.wden = c * first.w[i] * wden

C6_Witness ==
    /\ SecondReturned("scale")
    /\ ZeroSet(first.w) # ZeroSet(w) /\ ZeroSet(first.w) # {}

OnSimplex(vec, zz) ==
    /\ Len(vec) >= 1
    /\ \A i \in 1..Len(vec) : vec[i] >= 0
    /\ SumSeq(vec, Len(vec)) = zz

\* C7: when v is non-negative and sums to z, project returns v itself and the
\* threshold theta = (s - z) / p is 0, for every pivot sequence; projecting
\* the result of any call again returns that result.
C7_FixedPoint ==
    /\ (Returned /\ OnSimplex(v, z)) =>
          /\ s - z = 0
          /\ Len(w) = Len(v)
          /\ \A i \in 1..Len(v) : w[i] * den = v[i] * wden
    /\ SecondReturned("reproject") =>
          /\ Len(w) = Len(first.w)
          /\ \A i \in 1..Len(w) : w[i] * first.wden = first.w[i] * wden

C7_Witness ==
    /\ SecondReturned("reproject")
    /\ OnSimplex(first.v, first.z) /\ Len(first.v) = 3
    /\ \E i \in 1..3 : first.v[i] = 0
    /\ \E i \in 1..3 : \E j \in 1..3 : i # j /\ first.v[i] = first.v[j] /\ first.v[i] > 0
    /\ iters >= 2

\* C8: every iteration replaces U by a strict subset of itself, the loop
\* runs at most n iterations, every pivot k that can be drawn is in G and not
\* in L, and a call that entered the loop leaves it.
C8_Terminates ==
    /\ [][(pc = "loop" /\ pc' = "loop" /\ call' = call) =>
             (U' \subseteq U /\ U' # U /\ iters' = iters + 1)]_vars
    /\ [](pc \in {"loop", "done"} =>
             (iters <= Len(v) /\ iters + Cardinality(U) <= Len(v)))
    /\ [](pc = "loop" =>
             \A k \in U : /\ k \in GSet(v, U, k) /\ k \notin LSet(v, U, k)
                          /\ LSet(v, U, k) # U
                          /\ RejectU(GSet(v, U, k), k) # U)
    /\ [](pc = "loop" => <>(pc # "loop"))

C8_Witness ==
    /\ Returned /\ call = 1 /\ Len(v) = 3 /\ iters = 3
    /\ \E i \in 1..3 : \E j \in 1..3 : i # j /\ v[i] = v[j]

\* C9: for n >= 1 the count p is at least 1 when the loop exits, and an
\* index of maximal value is never discarded.
C9_CountPositive ==
    (op = "project" /\ Len(v) >= 1 /\ pc \in {"loop", "done", "error"}
       /\ err \notin {InvalidShape, InvalidTarget}) =>
        /\ (pc # "loop" \/ U = {}) => p >= 1
        /\ pc # "loop" => err # ZeroDivision
        /\ \A j \in discarded :
              \E i \in 0..(Len(v) - 1) : Val(v, i) > Val(v, j)

C9_Witness ==
    /\ op = "project" /\ pc = "loop" /\ U = {} /\ call = 1
    /\ p = 1 /\ Cardinality(discarded) = 2

\* C10: before every iteration the working indices 0..n-1 are partitioned
\* into accepted, U and discarded; p counts the accepted indices and s is the
\* sum of their values v[j-1]; accepted values are strictly greater than, and
\* discarded values at most, every value still in U.
C10_LoopInvariant ==
    (op = "project" /\ pc = "loop") =>
        /\ accepted \cup U \cup discarded = 0..(Len(v) - 1)
        /\ accepted \cap U = {} /\ accepted \cap discarded = {}
        /\ U \cap discarded = {}
        /\ p = Cardinality(accepted)
        /\ s = SumVal(v, accepted)
        /\ \A a \in accepted : \A u \in U : Val(v, a) > Val(v, u)
        /\ \A d \in discarded : \A u \in U : Val(v, d) <= Val(v, u)

C10_Witness ==
    /\ op = "project" /\ pc = "loop" /\ call = 1
    /\ accepted # {} /\ discarded # {} /\ U # {}

====
